---- MODULE Spec2Model ----
(***************************************************************************)
(* Expense Tracker API (src/expense_api/main.py).                          *)
(*                                                                         *)
(* The state is the expenses table behind psycopg2, the serial sequence    *)
(* and insertion clock that assign id and created_at, the requests that    *)
(* are between their statement and their response, and the last request    *)
(* that responded, with its response and whether it closed the connection  *)
(* it opened.  The step at which a database call raises is an input of a   *)
(* handler (failAt).                                                       *)
(*                                                                         *)
(* Handlers run in a thread pool, so requests overlap: between two         *)
(* database calls of a handler, and between its last statement and its     *)
(* response, other requests run.  A handler is one step up to its          *)
(* statement (the INSERT, DELETE or SELECT), one step for its commit where *)
(* it has one, and one step for its close calls and its response.  The     *)
(* fetch of the statement's result belongs to the step after the           *)
(* statement, so that a fetch that raises answers after other requests     *)
(* have run.  A refused POST touches no table and is one step.             *)
(*                                                                         *)
(* Amounts are whole currency units.  Values the code rounds to two        *)
(* decimals (average_spend, max_spend) are kept in hundredths.             *)
(* A date text is the tuple of its groups of decimal digits: "2024-01-05"  *)
(* is <<<<2,0,2,4>>, <<0,1>>, <<0,5>>>> and "2024-1-5" is                  *)
(* <<<<2,0,2,4>>, <<1>>, <<5>>>>; a text that has no such shape            *)
(* ("not-a-date") is the empty tuple.  A cell of the date column is a      *)
(* record of year, month and day.                                          *)
(***************************************************************************)
EXTENDS Integers, Sequences, FiniteSets, TLC

VARIABLES store, nextId, clock, deleted, pending, last

vars == <<store, nextId, clock, deleted, pending, last>>

(* ------------------------------ bounds -------------------------------- *)
MaxInserts == 2
MaxInFlight == 2
MaxRows == 3
MaxExtra == 1

(* ------------------------- program constants -------------------------- *)
MinLimit == 1
MaxLimit == 200
DefaultLimit == 20

(* ------------------------------- inputs ------------------------------- *)
Missing == "<missing>"
NoNote == "<None>"
NotADate == <<>>

\* The texts "2024-01-05", "2024-2-1" (no leading zeros), "2024-01-01" and
\* "3000-01-01" (a date no pandas timestamp holds).
Jan5 == <<<<2, 0, 2, 4>>, <<0, 1>>, <<0, 5>>>>
Feb1Short == <<<<2, 0, 2, 4>>, <<2>>, <<1>>>>
Jan1 == <<<<2, 0, 2, 4>>, <<0, 1>>, <<0, 1>>>>
Year3000 == <<<<3, 0, 0, 0>>, <<0, 1>>, <<0, 1>>>>

ExpInputs ==
    { [amount |-> 100, category |-> "food", expense_date |-> Jan5, note |-> NoNote],
      [amount |-> 50, category |-> "food", expense_date |-> Feb1Short, note |-> "lunch"],
      [amount |-> 100, category |-> "food", expense_date |-> Year3000, note |-> NoNote],
      [amount |-> -5, category |-> "x", expense_date |-> Jan1, note |-> NoNote],
      [amount |-> 0, category |-> "food", expense_date |-> Jan5, note |-> NoNote],
      [amount |-> 100, category |-> Missing, expense_date |-> Jan5, note |-> NoNote],
      [amount |-> 100, category |-> "food", expense_date |-> NotADate, note |-> NoNote] }

NoExp == [amount |-> 0, category |-> Missing, expense_date |-> NotADate, note |-> NoNote]

IdInputs == 1 .. MaxInserts

LimitInputs == {-1, 0, 1, 2, MaxLimit, MaxLimit + 1, 10000}

AddSteps == <<"connect", "execute", "fetch", "commit", "cur_close", "conn_close", "none">>
ListSteps == <<"connect", "execute", "fetch", "cur_close", "conn_close", "none">>
ReadSteps == <<"connect", "read", "conn_close", "none">>

Range(s) == {s[i] : i \in 1 .. Len(s)}

\* The requests: every input without a failure, and one input with a failure
\* at get_connection and at cur.execute.
AddInputs ==
    {<<exp, "none">> : exp \in ExpInputs}
      \cup {<<[amount |-> 100, category |-> "food", expense_date |-> Jan5,
               note |-> NoNote], f>> : f \in {"connect", "execute"}}

\* The outcomes of cur.fetchone() and conn.commit(), and of the two close calls
\* of a handler.
CommitInputs == {"none", "fetch", "commit"}
CloseInputs == {"none", "cur_close", "conn_close"}

\* The outcomes of cur.fetchall() and of the two close calls of list_expenses.
FetchCloseInputs == {"none", "fetch", "cur_close", "conn_close"}

\* The outcomes of get_connection and pd.read_sql, and of conn.close(), in
\* analytics_summary.
ReadInputs == {"none", "connect", "read"}
ReadCloseInputs == {"none", "conn_close"}

DeleteInputs ==
    {<<id, "none">> : id \in IdInputs}
      \cup {<<1, f>> : f \in {"connect", "execute"}}

ListInputs ==
    {<<limit, "none">> : limit \in {1, DefaultLimit}}
      \cup {<<DefaultLimit, f>> : f \in {"connect", "execute"}}

\* For the table of up to 202 rows: every limit around the clamp.
WideListInputs ==
    {<<limit, "none">> : limit \in LimitInputs}
      \cup {<<DefaultLimit, f>> : f \in {"connect", "execute"}}

\* Position of a step in a handler's sequence of database calls.
StepIndex(steps, f) == CHOOSE i \in 1 .. Len(steps) : steps[i] = f

\* TRUE when the call named step was reached and returned before failAt raised.
Passed(steps, failAt, step) == StepIndex(steps, failAt) > StepIndex(steps, step)

(* ------------------------------ dates --------------------------------- *)
IsLeap(y) == (y % 4 = 0 /\ y % 100 # 0) \/ y % 400 = 0

DaysIn(y, m) ==
    IF m = 2 THEN (IF IsLeap(y) THEN 29 ELSE 28)
    ELSE IF m \in {4, 6, 9, 11} THEN 30 ELSE 31

\* datetime.date(year, month, day), the value psycopg2 gives for a cell of the
\* date column.
date(y, m, d) == [year |-> y, month |-> m, day |-> d]

\* A cell that holds no date.
NoDate == date(0, 0, 0)

\* The value is a calendar date (of the years a datetime.date holds).
IsCalendarDate(d) ==
    /\ d.year \in 1 .. 9999
    /\ d.month \in 1 .. 12
    /\ d.day \in 1 .. DaysIn(d.year, d.month)

\* The number a group of decimal digits reads as.
RECURSIVE Number(_)
Number(ds) ==
    IF ds = <<>> THEN 0 ELSE 10 * Number(SubSeq(ds, 1, Len(ds) - 1)) + ds[Len(ds)]

\* n in decimal digits, zero-padded to four and to two digits.
Digits4(n) == <<(n \div 1000) % 10, (n \div 100) % 10, (n \div 10) % 10, n % 10>>

Digits2(n) == <<(n \div 10) % 10, n % 10>>

\* The text has the shape year-month-day: a year of four digits, a month and a
\* day of one or two.
IsDateText(t) ==
    /\ Len(t) = 3
    /\ Len(t[1]) = 4
    /\ Len(t[2]) \in {1, 2}
    /\ Len(t[3]) \in {1, 2}

\* The date column: text in, date value stored.
DateIn(t) ==
    IF IsDateText(t) THEN date(Number(t[1]), Number(t[2]), Number(t[3])) ELSE NoDate

\* str(date): the ISO text YYYY-MM-DD of a date value.
DateStr(d) == <<Digits4(d.year), Digits2(d.month), Digits2(d.day)>>

\* a is a day before b.
Before(a, b) ==
    \/ a.year < b.year
    \/ a.year = b.year /\ a.month < b.month
    \/ a.year = b.year /\ a.month = b.month /\ a.day < b.day

\* The first and the last day a pandas timestamp (64 bits of nanoseconds) holds
\* at midnight.
TimestampMin == date(1677, 9, 22)
TimestampMax == date(2262, 4, 11)

\* pd.to_datetime(errors="coerce") of a cell: a timestamp when the cell is a
\* calendar date within the range of timestamps, NaT otherwise.
to_datetime(d) ==
    IsCalendarDate(d) /\ ~Before(d, TimestampMin) /\ ~Before(TimestampMax, d)

(* ---------------------------- validation ------------------------------ *)
\* Expense without the gt=0 constraint on amount.
ExpenseAnyAmount(exp) == exp.category # Missing

\* class Expense(BaseModel): amount gt 0, category and expense_date required
\* strings (any string), note optional.
Expense(exp) ==
    /\ exp.amount > 0
    /\ exp.category # Missing

(* ------------------------- the expenses table ------------------------- *)
\* INSERT ... VALUES (%s, %s, %s, %s): the date column takes a text only if it
\* reads as a calendar date; anything else makes cur.execute raise.
InsertAccepts(exp) ==
    IsDateText(exp.expense_date) /\ IsCalendarDate(DateIn(exp.expense_date))

\* The row the INSERT stores: id from the sequence, created_at from the clock,
\* the date text converted to a date value.
NewRow(exp, id, now) ==
    [id |-> id,
     amount |-> exp.amount,
     category |-> exp.category,
     expense_date |-> DateIn(exp.expense_date),
     note |-> exp.note,
     created_at |-> now]

Ids(rows) == {rows[i].id : i \in 1 .. Len(rows)}

\* DELETE with the comparison id <= %s.
DeleteWhereUpTo(rows, id) == SelectSeq(rows, LAMBDA r : r.id > id)

\* DELETE FROM expenses WHERE id = %s
DeleteWhere(rows, id) == SelectSeq(rows, LAMBDA r : r.id # id)

\* Merge of two sequences that are each in descending order of created_at.
RECURSIVE MergeDesc(_, _)
MergeDesc(a, b) ==
    IF a = <<>> THEN b
    ELSE IF b = <<>> THEN a
    ELSE LET m == (Len(a) + 1) \div 2
             k == Len(SelectSeq(b, LAMBDA r : r.created_at > a[m].created_at))
         IN  MergeDesc(SubSeq(a, 1, m - 1), SubSeq(b, 1, k))
               \o <<a[m]>>
               \o MergeDesc(SubSeq(a, m + 1, Len(a)), SubSeq(b, k + 1, Len(b)))

\* ORDER BY created_at DESC
RECURSIVE OrderByCreatedAtDesc(_)
OrderByCreatedAtDesc(rows) ==
    IF Len(rows) <= 1 THEN rows
    ELSE LET h == Len(rows) \div 2
         IN  MergeDesc(OrderByCreatedAtDesc(SubSeq(rows, 1, h)),
                       OrderByCreatedAtDesc(SubSeq(rows, h + 1, Len(rows))))

Min(a, b) == IF a < b THEN a ELSE b
Max(a, b) == IF a > b THEN a ELSE b

\* The clamp without its lower end: min(limit, 200).
ClampLimitNoFloor(limit) == Min(limit, MaxLimit)

\* limit = max(1, min(limit, 200))
ClampLimit(limit) == Max(MinLimit, Min(limit, MaxLimit))

\* The SELECT without its ORDER BY: the rows as they lie in the table.
SelectRecentUnordered(rows, limit) == SubSeq(rows, 1, Min(limit, Len(rows)))

\* SELECT ... ORDER BY created_at DESC LIMIT %s
SelectRecent(rows, limit) ==
    SubSeq(OrderByCreatedAtDesc(rows), 1, Min(limit, Len(rows)))

\* One row of the response of GET /expenses: expense_date is str(r[3]).
RowJson(r) ==
    [id |-> r.id,
     amount |-> r.amount,
     category |-> r.category,
     expense_date |-> DateStr(r.expense_date),
     note |-> r.note,
     created_at |-> r.created_at]

ListBody(rows, limit) ==
    LET got == SelectRecent(rows, ClampLimit(limit))
    IN  [i \in 1 .. Len(got) |-> RowJson(got[i])]

(* ----------------------------- aggregation ---------------------------- *)
\* pd.to_datetime(errors="coerce") then dropna: a row stays when its date
\* became a timestamp.
DropNaT(rows) == SelectSeq(rows, LAMBDA r : to_datetime(r.expense_date))

\* dt.to_period("M").astype(str): the key "YYYY-MM".
MonthKey(r) == <<r.expense_date.year, r.expense_date.month>>

CategoryKey(r) == r.category

RECURSIVE SumAmount(_)
SumAmount(rows) ==
    IF rows = <<>> THEN 0 ELSE Head(rows).amount + SumAmount(Tail(rows))

RECURSIVE MaxAmount(_)
MaxAmount(rows) ==
    IF Len(rows) = 1 THEN Head(rows).amount
    ELSE Max(Head(rows).amount, MaxAmount(Tail(rows)))

\* groupby("category")["amount"].sum(): one [key, total] per category.
CategorySums(rows) ==
    { [key |-> k,
       total |-> SumAmount(SelectSeq(rows, LAMBDA r : CategoryKey(r) = k))] :
        k \in {CategoryKey(rows[i]) : i \in 1 .. Len(rows)} }

\* groupby("month")["amount"].sum(): one [key, total] per month.
MonthlySums(rows) ==
    { [key |-> k,
       total |-> SumAmount(SelectSeq(rows, LAMBDA r : MonthKey(r) = k))] :
        k \in {MonthKey(rows[i]) : i \in 1 .. Len(rows)} }

RECURSIVE Orderings(_)
Orderings(S) ==
    IF S = {} THEN {<<>>}
    ELSE UNION { {<<x>> \o p : p \in Orderings(S \ {x})} : x \in S }

\* sort_values(ascending=False): the default sort is not stable, so groups of
\* equal total come out in any order.
SortValuesDescending(groups) ==
    { s \in Orderings(groups) :
        \A i \in 1 .. Len(s) - 1 : s[i].total >= s[i + 1].total }

\* sort_values(): ascending.
SortValuesAscending(groups) ==
    { s \in Orderings(groups) :
        \A i \in 1 .. Len(s) - 1 : s[i].total <= s[i + 1].total }

\* A float of the response: a number of hundredths, or NaN.
Num(v) == [nan |-> FALSE, val |-> v]
NaN == [nan |-> TRUE, val |-> 0]

\* The mean cut to two decimals instead of rounded.
TruncatedMean(rows) ==
    IF rows = <<>> THEN NaN ELSE Num((100 * SumAmount(rows)) \div Len(rows))

\* Bits of the significand of a float (IEEE 754 binary64).
FloatBits == 53

RECURSIVE BitLength(_)
BitLength(i) == IF i = 0 THEN 0 ELSE 1 + BitLength(i \div 2)

\* The binary digits of r / den (0 <= r < den) after the point, taken one at
\* a time until need significant digits are kept, then rounded to nearest,
\* ties to the even digit: -1 when the float lies below the quotient, 1 when
\* above, 0 when it is the quotient.  low is the last digit kept.
RECURSIVE RoundToFloat(_, _, _, _)
RoundToFloat(r, den, need, low) ==
    IF r = 0 THEN 0
    ELSE LET bit == IF 2 * r >= den THEN 1 ELSE 0
             rest == 2 * r - bit * den
         IN  IF need = 0
             THEN (IF bit = 0 THEN -1
                   ELSE IF rest # 0 THEN 1
                   ELSE IF low = 1 THEN 1 ELSE -1)
             ELSE IF need = FloatBits /\ bit = 0
                  THEN RoundToFloat(rest, den, need, 0)
                  ELSE RoundToFloat(rest, den, need - 1, bit)

\* float division num / den of two whole numbers a float holds exactly: the
\* side of the quotient on which the result lies.
FloatError(num, den) ==
    RoundToFloat(num % den, den, FloatBits - BitLength(num \div den), (num \div den) % 2)

\* round(x, 2) of the float x = total / n, in hundredths: the hundredth
\* nearest to x.  When total / n lies half way between two hundredths, x is
\* that value only if a float holds it, and the even hundredth is taken; if
\* not, x lies to one side of it and that side is taken.
Round2(total, n) ==
    LET down == (100 * total) \div n
        twice == 2 * (100 * total - down * n)
    IN  IF twice < n THEN down
        ELSE IF twice > n THEN down + 1
        ELSE IF FloatError(total, n) < 0 THEN down
        ELSE IF FloatError(total, n) > 0 THEN down + 1
        ELSE IF down % 2 = 0 THEN down ELSE down + 1

\* round(float(np.mean(amount)), 2), in hundredths.
RoundedMean(rows) ==
    IF rows = <<>> THEN NaN ELSE Num(Round2(SumAmount(rows), Len(rows)))

\* round(float(np.max(amount)), 2), in hundredths.
RoundedMax(rows) ==
    IF rows = <<>> THEN NaN ELSE Num(100 * MaxAmount(rows))

NoSummary ==
    [kind |-> "none", total_expenses |-> 0, average_spend |-> NaN, max_spend |-> NaN,
     category_totals |-> <<>>, monthly_totals |-> <<>>]

NoData == [NoSummary EXCEPT !.kind = "No data available"]

\* analytics_summary without its df.empty test.
SummariesNoEmptyTest(rows) ==
    LET df == DropNaT(rows)
    IN  { [kind |-> "stats",
           total_expenses |-> Len(df),
           average_spend |-> RoundedMean(df),
           max_spend |-> RoundedMax(df),
           category_totals |-> c,
           monthly_totals |-> m] :
            c \in SortValuesDescending(CategorySums(df)),
            m \in SortValuesAscending(MonthlySums(df)) }

\* What analytics_summary can return for the rows it read.
Summaries(rows) ==
    IF rows = <<>> THEN {NoData}
    ELSE LET df == DropNaT(rows)
         IN  { [kind |-> "stats",
                total_expenses |-> Len(df),
                average_spend |-> RoundedMean(df),
                max_spend |-> RoundedMax(df),
                category_totals |-> c,
                monthly_totals |-> m] :
                 c \in SortValuesDescending(CategorySums(df)),
                 m \in SortValuesAscending(MonthlySums(df)) }

\* The JSON response refuses a float that is NaN (json.dumps with
\* allow_nan=False): the request then ends in a server error.
JsonStatus(summary) ==
    IF summary.kind = "stats" /\ (summary.average_spend.nan \/ summary.max_spend.nan)
    THEN 500 ELSE 200

(* ------------------------------ requests ------------------------------ *)
NoRow ==
    [id |-> 0, amount |-> 0, category |-> Missing, expense_date |-> NoDate,
     note |-> NoNote, created_at |-> 0]

\* A request and its response.  before is the table its statement met, prior
\* and after the table around its commit, final the table when its response
\* was sent, gone the ids removed before its statement ran.
NoRequest ==
    [op |-> "none", pc |-> "done", exp |-> NoExp, row |-> NoRow, id |-> 0,
     found |-> FALSE, limit |-> 0, failAt |-> "none", status |-> 0,
     connected |-> FALSE, attempted |-> FALSE, released |-> FALSE,
     new_id |-> 0, tx_id |-> 0, overlapped |-> FALSE,
     rows |-> <<>>, summary |-> NoSummary, gone |-> {},
     before |-> <<>>, prior |-> <<>>, after |-> <<>>, final |-> <<>>]

\* get_connection(): psycopg2.connect(DATABASE_URL), or a 500 when the
\* variable is not set.  TRUE when the handler got a connection.
get_connection(steps, failAt) == Passed(steps, failAt, "connect")

\* Whether the connection the handler opened was closed when it responded.
\* conn.close() is the last call of every handler and nothing closes the
\* connection once an earlier call has raised; a conn.close() that raises
\* leaves the connection in either state.
Released(steps, failAt) ==
    IF ~get_connection(steps, failAt) THEN {FALSE}
    ELSE IF failAt = "none" THEN {TRUE}
    ELSE IF failAt = "conn_close" THEN BOOLEAN
    ELSE {FALSE}

\* raise HTTPException(status_code=500, detail=str(e)): the response holds
\* nothing of what the handler read.
Failed(tx) ==
    [NoRequest EXCEPT !.op = tx.op, !.exp = tx.exp, !.id = tx.id, !.limit = tx.limit,
                      !.tx_id = tx.tx_id, !.overlapped = tx.overlapped,
                      !.prior = tx.prior, !.after = tx.after]

\* The responses of a handler whose calls are steps and that ends at failAt:
\* its return value with status ok, or the 500 of its except clause.
Responses(tx, steps, failAt, ok) ==
    { [(IF failAt = "none" THEN tx ELSE Failed(tx))
          EXCEPT !.pc = "done", !.failAt = failAt,
                 !.status = IF failAt = "none" THEN ok ELSE 500,
                 !.connected = get_connection(steps, failAt),
                 !.attempted = get_connection(steps, failAt),
                 !.released = released] : released \in Released(steps, failAt) }

\* The step of add_expense that raises: the one asked for, or cur.execute
\* when it is reached with a date the table refuses.
AddFailure(exp, failAt) ==
    IF Passed(AddSteps, failAt, "connect") /\ ~InsertAccepts(exp) THEN "execute" ELSE failAt

\* POST /expenses with a body the Expense model refuses: the framework answers
\* 422 and add_expense is not called.
validation_error(exp) ==
    /\ ~Expense(exp)
    /\ last' = [NoRequest EXCEPT !.op = "add", !.exp = exp, !.status = 422]
    /\ UNCHANGED <<store, nextId, clock, deleted, pending>>

\* Another POST ran its INSERT while these POST requests were between their
\* own INSERT and their response.
Overlap(txs) == {IF t.op = "add" THEN [t EXCEPT !.overlapped = TRUE] ELSE t : t \in txs}

\* POST /expenses, up to cur.execute(): get_connection, then the INSERT, in
\* which the sequence gives the id and created_at is assigned.  The row is in
\* the transaction of this request only.  A get_connection or a cur.execute
\* that raises stores nothing, draws no id and ends the request here with a
\* 500.
add_expense_execute(exp, failAt) ==
    /\ Expense(exp)
    /\ nextId <= MaxInserts
    /\ Cardinality(pending) < MaxInFlight
    /\ LET f == AddFailure(exp, failAt)
           rq == [NoRequest EXCEPT !.op = "add", !.pc = "executed", !.exp = exp]
           tx == [rq EXCEPT !.row = NewRow(exp, nextId, clock), !.tx_id = nextId]
       IN  IF f = "none"
           THEN /\ nextId' = nextId + 1
                /\ clock' = clock + 1
                /\ pending' = Overlap(pending) \cup {tx}
                /\ UNCHANGED last
           ELSE /\ last' \in Responses(rq, AddSteps, f, 200)
                /\ UNCHANGED <<nextId, clock, pending>>
    /\ UNCHANGED <<store, deleted>>

\* cur.fetchone() and conn.commit() of add_expense: the row becomes visible to
\* other requests.  A fetch or a commit that raises ends the request with a
\* 500 and the row is not stored; the id it drew is not given again.
add_expense_commit(tx, failAt) ==
    /\ tx \in pending
    /\ tx.op = "add"
    /\ tx.pc = "executed"
    /\ IF failAt # "none"
       THEN /\ pending' = pending \ {tx}
            /\ last' \in Responses(tx, AddSteps, failAt, 200)
            /\ UNCHANGED store
       ELSE /\ store' = Append(store, tx.row)
            /\ pending' = (pending \ {tx}) \cup {[tx EXCEPT !.pc = "committed"]}
            /\ UNCHANGED last
    /\ UNCHANGED <<nextId, clock, deleted>>

\* cur.close(), conn.close() and the return of add_expense, after the commit:
\* the id of the row, or a 500 when a close call raises.
add_expense_respond(tx, failAt) ==
    /\ tx \in pending
    /\ tx.op = "add"
    /\ tx.pc = "committed"
    /\ pending' = pending \ {tx}
    /\ last' \in Responses([tx EXCEPT !.final = store,
                                      !.new_id = IF failAt = "none" THEN tx.row.id ELSE 0],
                           AddSteps, failAt, 200)
    /\ UNCHANGED <<store, nextId, clock, deleted>>

\* The row with this id is locked by a DELETE that has not committed yet:
\* another DELETE of it waits at its cur.execute.
Locked(expense_id) ==
    \E t \in pending :
      t.op = "delete" /\ t.pc = "executed" /\ t.found /\ t.id = expense_id

\* DELETE /expenses/{expense_id}, up to cur.execute(): the DELETE ... RETURNING
\* id finds the row or not; the removal is in the transaction of this request
\* only.  A get_connection or a cur.execute that raises ends the request here
\* with a 500.
delete_expense_execute(expense_id, failAt) ==
    /\ Cardinality(pending) < MaxInFlight
    /\ failAt = "none" => ~Locked(expense_id)
    /\ LET rq == [NoRequest EXCEPT !.op = "delete", !.pc = "executed",
                                   !.id = expense_id]
           tx == [rq EXCEPT !.found = expense_id \in Ids(store), !.gone = deleted,
                            !.before = store, !.prior = store, !.after = store]
       IN  IF failAt = "none"
           THEN /\ tx \notin pending
                /\ pending' = pending \cup {tx}
                /\ UNCHANGED last
           ELSE /\ last' \in Responses(rq, AddSteps, failAt, 200)
                /\ UNCHANGED pending
    /\ UNCHANGED <<store, nextId, clock, deleted>>

\* cur.fetchone() and conn.commit() of delete_expense: the removal becomes
\* visible to other requests.  A fetch or a commit that raises ends the request
\* with a 500 and the row stays.
delete_expense_commit(tx, failAt) ==
    /\ tx \in pending
    /\ tx.op = "delete"
    /\ tx.pc = "executed"
    /\ IF failAt # "none"
       THEN /\ pending' = pending \ {tx}
            /\ last' \in Responses([tx EXCEPT !.prior = store, !.after = store],
                                   AddSteps, failAt, 200)
            /\ UNCHANGED <<store, deleted>>
       ELSE LET left == IF tx.found THEN DeleteWhere(store, tx.id) ELSE store
                done == [tx EXCEPT !.pc = "committed", !.prior = store, !.after = left]
            IN  /\ store' = left
                /\ deleted' = IF tx.found THEN deleted \cup {tx.id} ELSE deleted
                /\ pending' =
                      {IF t.op = "add" /\ t.pc = "committed" /\ tx.found /\ t.row.id = tx.id
                       THEN [t EXCEPT !.overlapped = TRUE] ELSE t : t \in pending \ {tx}}
                        \cup {done}
                /\ UNCHANGED last
    /\ UNCHANGED <<nextId, clock>>

\* cur.close(), conn.close() and the end of delete_expense, after the commit:
\* the 404 when no row was found, the id of the row, or a 500 when a close
\* call raises.
delete_expense_respond(tx, failAt) ==
    /\ tx \in pending
    /\ tx.op = "delete"
    /\ tx.pc = "committed"
    /\ pending' = pending \ {tx}
    /\ last' \in Responses([tx EXCEPT !.new_id = IF failAt = "none" /\ tx.found
                                                 THEN tx.id ELSE 0],
                           AddSteps, failAt, IF tx.found THEN 200 ELSE 404)
    /\ UNCHANGED <<store, nextId, clock, deleted>>

\* GET /expenses?limit=N, up to cur.execute(): the SELECT reads the committed
\* rows.  A get_connection or a cur.execute that raises ends the request here
\* with a 500.
list_expenses_select(limit, failAt) ==
    /\ Cardinality(pending) < MaxInFlight
    /\ LET rq == [NoRequest EXCEPT !.op = "list", !.pc = "executed", !.limit = limit]
           tx == [rq EXCEPT !.gone = deleted, !.before = store,
                            !.rows = ListBody(store, limit)]
       IN  IF failAt = "none"
           THEN /\ tx \notin pending
                /\ pending' = pending \cup {tx}
                /\ UNCHANGED last
           ELSE /\ last' \in Responses(rq, ListSteps, failAt, 200)
                /\ UNCHANGED pending
    /\ UNCHANGED <<store, nextId, clock, deleted>>

\* cur.fetchall(), cur.close(), conn.close() and the return of list_expenses:
\* the rows read, or a 500 when one of the calls raises.
list_expenses_respond(tx, failAt) ==
    /\ tx \in pending
    /\ tx.op = "list"
    /\ pending' = pending \ {tx}
    /\ last' \in Responses(tx, ListSteps, failAt, 200)
    /\ UNCHANGED <<store, nextId, clock, deleted>>

\* GET /analytics/summary, up to pd.read_sql: the SELECT reads the committed
\* rows.  A call that raises ends the request here with a 500.
analytics_summary_read(failAt) ==
    /\ Cardinality(pending) < MaxInFlight
    /\ LET rq == [NoRequest EXCEPT !.op = "analytics", !.pc = "executed"]
           tx == [rq EXCEPT !.before = store]
       IN  IF failAt = "none"
           THEN /\ tx \notin pending
                /\ pending' = pending \cup {tx}
                /\ UNCHANGED last
           ELSE /\ last' \in Responses(rq, ReadSteps, failAt, 200)
                /\ UNCHANGED pending
    /\ UNCHANGED <<store, nextId, clock, deleted>>

\* conn.close() and the rest of analytics_summary: the summary of the rows
\* read, or a 500 when the close call raises or the summary has no JSON form.
analytics_summary_respond(tx, failAt) ==
    /\ tx \in pending
    /\ tx.op = "analytics"
    /\ pending' = pending \ {tx}
    /\ \E summary \in (IF failAt = "none" THEN Summaries(tx.before) ELSE {NoSummary}) :
          last' \in Responses([tx EXCEPT !.summary = summary],
                              ReadSteps, failAt, JsonStatus(summary))
    /\ UNCHANGED <<store, nextId, clock, deleted>>

(* --------------------------- specifications --------------------------- *)
\* The service on an empty table.
Init ==
    /\ store = <<>>
    /\ nextId = 1
    /\ clock = 1
    /\ deleted = {}
    /\ pending = {}
    /\ last = NoRequest

Next ==
    \/ \E exp \in ExpInputs : validation_error(exp)
    \/ \E in \in AddInputs : add_expense_execute(in[1], in[2])
    \/ \E tx \in pending, failAt \in CommitInputs : add_expense_commit(tx, failAt)
    \/ \E tx \in pending, failAt \in CloseInputs : add_expense_respond(tx, failAt)
    \/ \E in \in DeleteInputs : delete_expense_execute(in[1], in[2])
    \/ \E tx \in pending, failAt \in CommitInputs : delete_expense_commit(tx, failAt)
    \/ \E tx \in pending, failAt \in CloseInputs : delete_expense_respond(tx, failAt)
    \/ \E in \in ListInputs : list_expenses_select(in[1], in[2])
    \/ \E tx \in pending, failAt \in FetchCloseInputs : list_expenses_respond(tx, failAt)
    \/ \E failAt \in ReadInputs : analytics_summary_read(failAt)
    \/ \E tx \in pending, failAt \in ReadCloseInputs : analytics_summary_respond(tx, failAt)

Spec == Init /\ [][Next]_vars

\* GET /expenses on a table that already holds rows, around the cap of 200.
\* The rows lie in the table in an order that is not their order of creation.
Preloaded(n) ==
    [i \in 1 .. n |->
        [id |-> i,
         amount |-> 1 + (i % 3),
         category |-> IF i % 2 = 0 THEN "food" ELSE "transport",
         expense_date |-> date(2024, 1 + (i % 12), 1),
         note |-> NoNote,
         created_at |-> IF i % 2 = 0 THEN i - 1 ELSE IF i < n THEN i + 1 ELSE i]]

ListSizes == (0 .. MaxRows) \cup ((MaxLimit - 1) .. (MaxLimit + MaxExtra))

InitList ==
    /\ \E n \in ListSizes :
          /\ store = Preloaded(n)
          /\ nextId = n + 1
          /\ clock = n + 1
    /\ deleted = {}
    /\ pending = {}
    /\ last = NoRequest

NextList ==
    \/ \E in \in WideListInputs : list_expenses_select(in[1], in[2])
    \/ \E tx \in pending, failAt \in CloseInputs : list_expenses_respond(tx, failAt)

SpecList == InitList /\ [][NextList]_vars

\* GET /analytics/summary over any rows the table may hand back, rows whose
\* date does not become a timestamp included: a cell that holds no date, the
\* 30th of February, and a date after the last timestamp.
AggInputs ==
    { [amount |-> 100, category |-> "food", expense_date |-> date(2024, 1, 5)],
      [amount |-> 50, category |-> "food", expense_date |-> date(2024, 2, 1)],
      [amount |-> 30, category |-> "transport", expense_date |-> date(2024, 1, 20)],
      [amount |-> 50, category |-> "transport", expense_date |-> date(2024, 2, 1)],
      [amount |-> 100, category |-> "food", expense_date |-> NoDate],
      [amount |-> 30, category |-> "rent", expense_date |-> date(2024, 2, 30)],
      [amount |-> 50, category |-> "rent", expense_date |-> date(3000, 1, 1)] }

AggRow(t, i) ==
    [id |-> i, amount |-> t.amount, category |-> t.category,
     expense_date |-> t.expense_date, note |-> NoNote, created_at |-> i]

\* Tables whose mean lies half way between two hundredths: n rows, the first
\* of amount top and the others of amount 1.
TieRows(n, top) ==
    [i \in 1 .. n |->
        [id |-> i, amount |-> IF i = 1 THEN top ELSE 1, category |-> "food",
         expense_date |-> date(2024, 1, 5), note |-> NoNote, created_at |-> i]]

\* Means 1.125 and 1.375 (floats), 1.075 and 1.275 (the float lies below),
\* 1.175 (the float lies above).
TieTables ==
    {TieRows(8, 2), TieRows(8, 4), TieRows(40, 4), TieRows(40, 12), TieRows(40, 8)}

InitAgg ==
    /\ \/ \E n \in 0 .. MaxRows :
            \E ts \in [1 .. n -> AggInputs] :
              store = [i \in 1 .. n |-> AggRow(ts[i], i)]
       \/ store \in TieTables
    /\ nextId = Len(store) + 1
    /\ clock = Len(store) + 1
    /\ deleted = {}
    /\ pending = {}
    /\ last = NoRequest

NextAgg ==
    \/ \E failAt \in ReadInputs : analytics_summary_read(failAt)
    \/ \E tx \in pending, failAt \in ReadCloseInputs : analytics_summary_respond(tx, failAt)

SpecAgg == InitAgg /\ [][NextAgg]_vars

(* ------------------------------- claims ------------------------------- *)
Rows(seq) == {seq[i] : i \in 1 .. Len(seq)}

\* C1: once a request that opened a connection has responded, on any exit
\* path, that connection is closed.
C1_ConnectionReleased == last.connected => last.released

\* C2: every stored record has amount > 0, and a POST whose amount is zero or
\* negative is refused before the persistence layer: no connection, no insert,
\* the store unchanged.
C2_AmountPositive ==
    /\ \A r \in Rows(store) : r.amount > 0
    /\ \A tx \in pending : tx.op = "add" => (tx.exp.amount > 0 /\ tx.row.amount > 0)
    /\ (last.op = "add" /\ last.exp.amount <= 0) =>
          /\ last.status = 422
          /\ ~last.connected
          /\ ~last.attempted
          /\ last.tx_id = 0
          /\ last.pc = "done"

C2_Witness ==
    /\ last.op = "add"
    /\ last.exp.amount < 0
    /\ Len(store) >= 1
    /\ deleted # {}
    /\ pending # {}

\* C3: a POST whose expense_date is not a date, or whose category is missing,
\* gets a client error (4xx) and no insert is attempted (the database being
\* reachable).
C3_InvalidRejected ==
    (/\ last.op = "add"
     /\ last.failAt # "connect"
     /\ (last.exp.expense_date = NotADate \/ last.exp.category = Missing))
    => (last.status \in 400 .. 499 /\ ~last.attempted)

\* C4: without a storage failure, DELETE of an id that is not stored when its
\* statement runs answers 404 and its commit leaves the store as it was;
\* DELETE of a stored id answers with that id and its commit removes that
\* record and no other.  A removed id stays removed: it is not stored again, no
\* GET /expenses that reads after the removal holds it, and no DELETE of it
\* that runs after the removal succeeds; every DELETE that has answered with
\* an id has removed it.
C4_DeletePermanent ==
    /\ (last.op = "delete" /\ last.status = 404) => last.after = last.prior
    /\ (last.op = "delete" /\ last.failAt = "none" /\ last.id \notin Ids(last.before)) =>
          last.status = 404
    /\ (last.op = "delete" /\ last.failAt = "none" /\ last.id \in Ids(last.before)) =>
          /\ last.status = 200
          /\ last.new_id = last.id
          /\ last.id \in Ids(last.prior)
          /\ last.id \notin Ids(last.after)
          /\ Len(last.after) = Len(last.prior) - 1
          /\ \A r \in Rows(last.prior) : r.id # last.id => r \in Rows(last.after)
    /\ (last.op = "delete" /\ last.status = 200) => last.id \in deleted
    /\ \A id \in deleted : id \notin Ids(store)
    /\ \A tx \in pending \cup {last} :
          /\ tx.gone \subseteq deleted
          /\ tx.op = "list" => \A i \in 1 .. Len(tx.rows) : tx.rows[i].id \notin tx.gone
          /\ (tx.op = "delete" /\ tx.id \in tx.gone) => ~tx.found
    /\ (last.op = "delete" /\ last.id \in last.gone) =>
          /\ last.status # 200
          /\ last.failAt = "none" => last.status = 404

C4_Witness ==
    /\ last.op = "delete"
    /\ last.status = 404
    /\ last.id \in last.gone
    /\ \E r \in Rows(last.after) : r.id > last.id
    /\ \E tx \in pending : tx.op = "list" /\ tx.gone # {} /\ tx.rows # <<>>

\* C5: GET /expenses?limit=N returns min(clamp(N, 1, 200), number of stored
\* records) records, the most recently created ones, most recent first; a
\* limit of 0 or less answers as limit 1, a limit above 200 as limit 200.
C5_ListClamped ==
    (last.op = "list" /\ last.status = 200) =>
      LET n == last.limit
          c == IF n < 1 THEN 1 ELSE IF n > 200 THEN 200 ELSE n
          got == last.rows
          table == last.before
      IN  /\ Len(got) = (IF c < Len(table) THEN c ELSE Len(table))
          /\ \A i \in 1 .. Len(got) - 1 : got[i].created_at > got[i + 1].created_at
          /\ \A i \in 1 .. Len(got) : \E r \in Rows(table) : RowJson(r) = got[i]
          /\ \A r \in Rows(table) :
                \/ \E i \in 1 .. Len(got) : got[i].id = r.id
                \/ Len(got) > 0 /\ r.created_at < got[Len(got)].created_at
          /\ n <= 0 => got = ListBody(table, 1)
          /\ n > 200 => got = ListBody(table, 200)

C5_Witness ==
    /\ last.op = "list"
    /\ last.status = 200
    /\ last.limit = 10000
    /\ Len(last.before) > 200
    /\ Len(last.rows) = 200

\* The text is the date of the submitted text written as YYYY-MM-DD: the
\* submitted text itself when that has this form.
IsoOf(text, submitted) ==
    /\ Len(text) = 3
    /\ Len(submitted) = 3
    /\ Len(text[1]) = 4 /\ Len(text[2]) = 2 /\ Len(text[3]) = 2
    /\ \A i \in 1 .. 3 : Number(text[i]) = Number(submitted[i])
    /\ (Len(submitted[1]) = 4 /\ Len(submitted[2]) = 2 /\ Len(submitted[3]) = 2)
          => text = submitted

\* A GET /expenses?limit=N that reads rows holds the record of the last POST:
\* its id, the submitted amount, category, expense_date and note, and a
\* created_at.
ListsLastAdd(rows, limit) ==
    \E i \in 1 .. Len(ListBody(rows, limit)) :
      LET row == ListBody(rows, limit)[i]
      IN  /\ row.id = last.new_id
          /\ row.amount = last.exp.amount
          /\ row.category = last.exp.category
          /\ IsoOf(row.expense_date, last.exp.expense_date)
          /\ row.note = last.exp.note
          /\ row.created_at >= 1

\* The rows created after the record of the last POST.
CreatedLater(rows) ==
    {r \in Rows(rows) : \E mine \in Rows(rows) :
                           mine.id = last.new_id /\ r.created_at > mine.created_at}

\* C6 as stated: a successful POST returns an id no other stored record has,
\* and a GET /expenses with any limit >= 1 issued directly after its response
\* (it reads the store as it is when the response is sent) includes the record
\* with that id, the submitted amount, category, expense_date and note, and a
\* created_at (the record not having been deleted meanwhile).
C6_InsertAlwaysListed ==
    /\ \A i, j \in 1 .. Len(store) : store[i].id = store[j].id => i = j
    /\ (last.op = "add" /\ last.status = 200 /\ last.new_id \in Ids(last.final)) =>
          \A limit \in {l \in LimitInputs : l >= 1} : ListsLastAdd(last.final, limit)

\* C6 amended: a successful POST returns an id no other stored record has, and
\* no request that has drawn an id holds it; the record stored under it holds
\* the submitted amount, category and note, the date the submitted text names,
\* and a created_at; a GET /expenses?limit=N (N >= 1) issued directly after
\* the response, which reads the store as it is when the response is sent,
\* includes the record, its expense_date written as YYYY-MM-DD, unless at
\* least clamp(N) records created after it are stored by then or it has been
\* deleted by then; when no other POST ran its INSERT and no DELETE of the
\* record committed between the INSERT of the request and its response, that
\* GET includes it for every N >= 1.
C6_InsertThenList ==
    /\ \A i, j \in 1 .. Len(store) : store[i].id = store[j].id => i = j
    /\ \A tx \in pending : tx.op = "add" =>
          /\ tx.tx_id >= 1
          /\ tx.tx_id < nextId
          /\ \A other \in pending \ {tx} : other.op = "add" => other.tx_id # tx.tx_id
          /\ tx.pc = "executed" => tx.tx_id \notin Ids(store)
    /\ (last.op = "add" /\ last.status = 200) =>
          /\ last.new_id = last.tx_id
          /\ last.new_id >= 1
          /\ last.new_id \in Ids(last.final) \/ last.new_id \in deleted
          /\ \A r \in Rows(last.final) :
                r.id = last.new_id =>
                  /\ r.amount = last.exp.amount
                  /\ r.category = last.exp.category
                  /\ IsDateText(last.exp.expense_date)
                  /\ r.expense_date.year = Number(last.exp.expense_date[1])
                  /\ r.expense_date.month = Number(last.exp.expense_date[2])
                  /\ r.expense_date.day = Number(last.exp.expense_date[3])
                  /\ r.note = last.exp.note
                  /\ r.created_at >= 1
          /\ \A limit \in {l \in LimitInputs : l >= 1} :
                (/\ last.new_id \in Ids(last.final)
                 /\ Cardinality(CreatedLater(last.final)) < ClampLimit(limit))
                => ListsLastAdd(last.final, limit)
          /\ ~last.overlapped =>
                /\ last.new_id \in Ids(last.final)
                /\ \A limit \in {l \in LimitInputs : l >= 1} :
                      ListsLastAdd(last.final, limit)

\* A POST of a date written without leading zeros has answered, no request
\* having overlapped it, on a store of two records of which a GET with limit 1
\* returns its record, while another request is in flight.
C6_Witness ==
    /\ last.op = "add"
    /\ last.status = 200
    /\ ~last.overlapped
    /\ last.exp.expense_date = Feb1Short
    /\ Len(last.final) >= 2
    /\ ListsLastAdd(last.final, 1)
    /\ pending # {}

\* The rows of the table all have a date that parses: a calendar date that
\* pd.to_datetime turns into a timestamp.
AllParseable(rows) == \A r \in Rows(rows) : to_datetime(r.expense_date)

\* totals holds one entry per key of rows, each with the sum of its rows.
TotalsOf(totals, rows, Key(_)) ==
    /\ \A i, j \in 1 .. Len(totals) : totals[i].key = totals[j].key => i = j
    /\ {totals[i].key : i \in 1 .. Len(totals)} = {Key(r) : r \in Rows(rows)}
    /\ \A i \in 1 .. Len(totals) :
          totals[i].total = SumAmount(SelectSeq(rows, LAMBDA r : Key(r) = totals[i].key))

\* The parts of C7 that do not concern average_spend.
SummaryOf(sm, rows) ==
    /\ sm.kind = "stats"
    /\ TotalsOf(sm.category_totals, rows, CategoryKey)
    /\ \A i \in 1 .. Len(sm.category_totals) - 1 :
          sm.category_totals[i].total >= sm.category_totals[i + 1].total
    /\ TotalsOf(sm.monthly_totals, rows, MonthKey)
    /\ \A i \in 1 .. Len(sm.monthly_totals) - 1 :
          sm.monthly_totals[i].total <= sm.monthly_totals[i + 1].total
    /\ sm.total_expenses = Len(rows)
    /\ ~sm.max_spend.nan
    /\ \A r \in Rows(rows) : 100 * r.amount <= sm.max_spend.val
    /\ \E r \in Rows(rows) : 100 * r.amount = sm.max_spend.val

ExampleRows ==
    <<[amount |-> 100, category |-> "food", expense_date |-> date(2024, 1, 5)],
      [amount |-> 50, category |-> "food", expense_date |-> date(2024, 2, 1)],
      [amount |-> 30, category |-> "transport", expense_date |-> date(2024, 1, 20)]>>

IsExample(rows) ==
    /\ Len(rows) = 3
    /\ \A i \in 1 .. 3 :
          /\ rows[i].amount = ExampleRows[i].amount
          /\ rows[i].category = ExampleRows[i].category
          /\ rows[i].expense_date = ExampleRows[i].expense_date

ExampleSummary ==
    [kind |-> "stats", total_expenses |-> 3,
     average_spend |-> Num(6000), max_spend |-> Num(10000),
     category_totals |-> <<[key |-> "food", total |-> 150],
                           [key |-> "transport", total |-> 30]>>,
     monthly_totals |-> <<[key |-> <<2024, 2>>, total |-> 50],
                          [key |-> <<2024, 1>>, total |-> 130]>>]

Answered == last.op = "analytics" /\ last.failAt = "none"

\* C7 as stated: over rows that all have parseable dates, the summary holds
\* the category totals in descending order, the monthly totals in ascending
\* order, the number of rows, the largest amount, and average_spend equal to
\* the mean amount.
C7_SummaryExactMean ==
    (Answered /\ last.before # <<>> /\ AllParseable(last.before)) =>
      /\ last.status = 200
      /\ SummaryOf(last.summary, last.before)
      /\ ~last.summary.average_spend.nan
      /\ last.summary.average_spend.val * Len(last.before) = 100 * SumAmount(last.before)

\* C7 amended: as above, with average_spend the mean amount rounded to two
\* decimals (the hundredth nearest to the mean); on the rows of the example
\* the summary is the one the example gives.
C7_SummaryRoundedMean ==
    (Answered /\ last.before # <<>> /\ AllParseable(last.before)) =>
      /\ last.status = 200
      /\ SummaryOf(last.summary, last.before)
      /\ ~last.summary.average_spend.nan
      /\ LET d == last.summary.average_spend.val * Len(last.before) - 100 * SumAmount(last.before)
         IN  2 * d <= Len(last.before) /\ 2 * d >= -Len(last.before)
      /\ IsExample(last.before) => last.summary = ExampleSummary

C7_Witness ==
    /\ Answered
    /\ IsExample(last.before)
    /\ last.summary.kind = "stats"

\* C8: on any rows but none, rows whose date does not parse included (some of
\* them or all), the aggregation leaves the unparseable rows out of the totals
\* and of the count and ends with a normal result, not an error.
C8_NeverFails ==
    (Answered /\ last.before # <<>>) =>
      /\ last.status = 200
      /\ last.summary.kind = "stats"
      /\ ~last.summary.average_spend.nan
      /\ ~last.summary.max_spend.nan
      /\ last.summary.total_expenses = Len(DropNaT(last.before))
      /\ TotalsOf(last.summary.category_totals, DropNaT(last.before), CategoryKey)
      /\ TotalsOf(last.summary.monthly_totals, DropNaT(last.before), MonthKey)

\* C9: a summary of no record is the "No data available" message and not
\* statistics, and no summary of a record is that message; a summary of
\* records of which one has a date that parses (pd.to_datetime turns it into a
\* timestamp) is the statistics and not the message.
C9_NoDataSentinel ==
    Answered =>
      /\ last.before = <<>> =>
            /\ last.status = 200
            /\ last.summary.kind = "No data available"
            /\ last.summary = NoData
      /\ last.before # <<>> => last.summary.kind # "No data available"
      /\ (\E r \in Rows(last.before) : to_datetime(r.expense_date)) =>
            /\ last.status = 200
            /\ last.summary.kind = "stats"
            /\ last.summary.total_expenses >= 1
            /\ last.summary.total_expenses = Len(DropNaT(last.before))

\* A summary of the store emptied by a DELETE has answered with the message,
\* while a summary that read the store when it held one record, of a date no
\* timestamp holds, has not answered yet.
C9_Witness ==
    /\ Answered
    /\ last.before = <<>>
    /\ store = <<>>
    /\ deleted # {}
    /\ last.summary.kind = "No data available"
    /\ \E tx \in pending :
          /\ tx.op = "analytics"
          /\ tx.before # <<>>
          /\ DropNaT(tx.before) = <<>>

\* C10: a POST or DELETE that answers with a server error leaves the store
\* holding the records it held before the request: the record of the POST is
\* not stored, and the DELETE removed nothing.
C10_ErrorLeavesStore ==
    /\ (last.op = "add" /\ last.status = 500) => last.tx_id \notin Ids(store)
    /\ (last.op = "delete" /\ last.status = 500) => last.after = last.prior

====
